---- MODULE Spec2Model ----
(***************************************************************************)
(* A model of llm_manager's reflection engine                              *)
(* (src/src/llm_manager/reflection.py): ReflectiveLLMManager.reflect, the  *)
(* strategy catalog and the prompt builder, driven through an abstract     *)
(* llm_client whose generate either returns an LLMResponse or raises.      *)
(*                                                                         *)
(* Text is modelled as a sequence of fragments (a fragment stands for a    *)
(* run of characters), so that str.format is a concatenation and "is a    *)
(* substring of" is "is a contiguous subsequence of".                      *)
(***************************************************************************)
EXTENDS Integers, Sequences, FiniteSets, TLC

\* Largest num_iterations a caller passes in the sequential specification.
MaxIter == 2

\* Largest num_iterations a caller passes when two sessions interleave.
ConcIter == 2

\* Longest query and longest previous response, in fragments, given to a builder.
MaxLen == 2

\* Number of build_prompt calls made on one builder with the same arguments.
MaxBuilds == 2

\* Largest retries a caller passes to retry_call.
MaxRetries == 3

\* Number of generate calls made on one provider client.
MaxGenerates == 2

\* Largest calls and largest period (in clock ticks) given to a RateLimiter.
MaxCalls == 2
MaxPeriod == 4

\* Last reading of the clock.
MaxTime == 4

\* Two reflect calls may be in progress on one manager.
Sessions == {1, 2}

(***************************************************************************)
(* Strategy catalog                                                        *)
(***************************************************************************)

\* class ReflectionStrategy(Enum): members in definition order, name and value.
ReflectionStrategy ==
    << [name |-> "SELF_CRITIQUE",          value |-> "self_critique"],
       [name |-> "ALTERNATIVE_GENERATION", value |-> "alternative_generation"],
       [name |-> "CONFIDENCE_ASSESSMENT",  value |-> "confidence_assessment"],
       [name |-> "VERIFICATION",           value |-> "verification"],
       [name |-> "ADVERSARIAL",            value |-> "adversarial"] >>

\* What a failed Enum lookup yields here: no member (the code gets a ValueError).
NoMember == [name |-> "", value |-> ""]

Members == {ReflectionStrategy[i] : i \in DOMAIN ReflectionStrategy}

\* [s.value for s in ReflectionStrategy]
ValidOptions == [i \in DOMAIN ReflectionStrategy |-> ReflectionStrategy[i].value]

\* A lookup that also accepts a member's name (Enum["NAME"] instead of Enum(value)).
LookupByNameOrValue(v) ==
    IF \E m \in Members : m.value = v \/ m.name = v
    THEN CHOOSE m \in Members : m.value = v \/ m.name = v
    ELSE NoMember

\* ReflectionStrategy(reflection_strategy): lookup of a member by its value.
LookupStrategy(v) ==
    IF \E m \in Members : m.value = v
    THEN CHOOSE m \in Members : m.value = v
    ELSE NoMember

(***************************************************************************)
(* Prompt templates and the prompt builder                                 *)
(***************************************************************************)

\* prompt_library: each template is text, {query}, text, {response}, text.
Template(name) ==
    CASE name = "SELF_CRITIQUE" ->
           [pre  |-> <<"Critique your previous response and suggest improvements: Question: ">>,
            mid  |-> <<" Your previous response: ">>,
            post |-> <<" Your task is to critically analyze your response.">>]
      [] name = "ALTERNATIVE_GENERATION" ->
           [pre  |-> <<"Consider your previous response to this question: Question: ">>,
            mid  |-> <<" Your previous response: ">>,
            post |-> <<" Generate alternative approaches or perspectives.">>]
      [] name = "CONFIDENCE_ASSESSMENT" ->
           [pre  |-> <<"Evaluate your previous response to this question: Question: ">>,
            mid  |-> <<" Your previous response: ">>,
            post |-> <<" For each major claim, assess your confidence level.">>]
      [] name = "VERIFICATION" ->
           [pre  |-> <<"Verify your previous response to this question: Question: ">>,
            mid  |-> <<" Your previous response: ">>,
            post |-> <<" Check whether your response satisfies these criteria.">>]
      [] name = "ADVERSARIAL" ->
           [pre  |-> <<"Challenge your previous response to this question: Question: ">>,
            mid  |-> <<" Your previous response: ">>,
            post |-> <<" Adopt a skeptical perspective.">>]

\* A template that has lost its {response} field.
FormatWithoutResponse(t, query, response) == t.pre \o query \o t.mid \o t.post

\* template.format(query=..., response=...)
Format(t, query, response) == t.pre \o query \o t.mid \o response \o t.post

\* ReflectionPromptBuilder(strategy).build_prompt(original_query, previous_response)
BuildPrompt(strategy, original_query, previous_response) ==
    Format(Template(strategy.name), original_query, previous_response)

(***************************************************************************)
(* Responses, usage and failures of the generation capability              *)
(***************************************************************************)

\* A mapping with no key at all ({}).
EmptyMapping == [k \in {} |-> 0]

\* usage.get(key, 0)
UsageGetDefaultOne(usage, key) == IF key \in DOMAIN usage THEN usage[key] ELSE 1

\* usage.get(key, 0)
UsageGet(usage, key) == IF key \in DOMAIN usage THEN usage[key] ELSE 0

\* LLMResponse(text=..., usage=..., stop_reason=None)
LLMResponse(text, usage) == [kind |-> "ok", text |-> text, usage |-> usage]

\* An exception raised by generate.
Failure(type) ==
    [kind |-> "fail", error |-> [type |-> type, origin |-> "generate", detail |-> <<>>]]

\* The responses and failures of the stub client of the sequential specification.
StubOutcomes ==
    { LLMResponse(<<"r1">>, [input_tokens |-> 1, output_tokens |-> 2, total_tokens |-> 3]),
      LLMResponse(<<"r2">>, [input_tokens |-> 2]),
      LLMResponse(<<>>, EmptyMapping),
      Failure("LLMProviderError"),
      Failure("TimeoutError") }

\* The responses and failures of the stub client shared by two sessions.
ConcOutcomes ==
    { LLMResponse(<<"r1">>, [input_tokens |-> 1, output_tokens |-> 2, total_tokens |-> 3]),
      LLMResponse(<<"r2">>, [input_tokens |-> 2, output_tokens |-> 3, total_tokens |-> 5]),
      Failure("LLMProviderError") }

(***************************************************************************)
(* State                                                                   *)
(***************************************************************************)

VARIABLES
    llm_client,            \* self.llm_client: the outcomes its generate can produce
    args,                  \* per session: the arguments of the reflect call
    pc,                    \* per session: where the reflect call stands
    strategy_enum,         \* per session: the resolved strategy
    previous_response,     \* per session: local previous_response
    total_input_tokens,    \* per frame: local total_input_tokens
    total_output_tokens,   \* per frame: local total_output_tokens
    iteration_responses,   \* per frame: local iteration_responses
    iteration_num,         \* per session: the loop variable
    reflection_prompt,     \* per session: local reflection_prompt
    result,                \* per session: the returned ReflectionResult
    raised,                \* per session: the exception reflect raised
    trace                  \* history: generate calls and their outcomes, in order

reflVars == << llm_client, args, pc, strategy_enum, previous_response,
               total_input_tokens, total_output_tokens, iteration_responses,
               iteration_num, reflection_prompt, result, raised, trace >>

\* normalize_usage followed by LLMResponse(...), as the provider clients use them.
VARIABLES
    usage_dict,            \* the raw usage mapping handed to normalize_usage
    provider,              \* the provider tag handed to normalize_usage
    norm_pc,               \* "off", "called", "returned", "raised", "response", "invalid"
    norm_out,              \* what normalize_usage returned, or the exception it raised
    norm_resp,             \* the usage of the LLMResponse built from norm_out
    usage_before           \* history: usage_dict as it was when normalize_usage was called

normVars == << usage_dict, provider, norm_pc, norm_out, norm_resp, usage_before >>

\* A ReflectionPromptBuilder used on its own.
VARIABLES
    bp_strategy,           \* self.strategy of the builder
    bp_query,              \* original_query passed to build_prompt
    bp_prev,               \* previous_response passed to build_prompt
    bp_outs                \* history: the outcomes of the build_prompt calls so far

builderVars == << bp_strategy, bp_query, bp_prev, bp_outs >>

\* One call of retry_call.
VARIABLES
    retry_args,            \* the arguments: retries, backoff, exceptions
    retry_pc,              \* where the call stands
    attempt,               \* local attempt
    delay,                 \* local delay
    last_exc,              \* local last_exc
    retry_out,             \* what the call returned or raised
    func_calls,            \* history: the outcome of each invocation of func
    sleeps                 \* history: the argument of each time.sleep

retryVars == << retry_args, retry_pc, attempt, delay, last_exc, retry_out,
                func_calls, sleeps >>

\* One RateLimiter and the threads that call acquire on it.
VARIABLES
    limiter,               \* the fields calls, period, _tokens, _last
    now,                   \* the reading of time.monotonic()
    acq,                   \* per thread: where its acquire call stands
    recent,                \* history: the times of the acquire calls that returned
                           \* True less than one period ago
    tally                  \* history: how many acquire calls returned True, and
                           \* how many tokens _refill added

rateVars == << limiter, now, acq, recent, tally >>

\* One provider client and the generate calls made on it, one after the other.
VARIABLES
    gen_client,            \* which client class it is
    gen_args,              \* the options of the generate calls
    gen_pc,                \* where the current generate call stands
    gen_out,               \* what the current generate call returned or raised
    gen_count,             \* the ordinal of the current generate call
    acquire_log            \* history: the acquire calls made by the client

clientVars == << gen_client, gen_args, gen_pc, gen_out, gen_count, acquire_log >>

vars == << reflVars, normVars, builderVars, retryVars, rateVars, clientVars >>

\* Everything but the reflection engine's state.
notRefl == << normVars, builderVars, retryVars, rateVars, clientVars >>

\* Everything but the normalizer's state.
notNorm == << reflVars, builderVars, retryVars, rateVars, clientVars >>

\* Everything but the prompt builder's state.
notBuilder == << reflVars, normVars, retryVars, rateVars, clientVars >>

\* Everything but retry_call's state.
notRetry == << reflVars, normVars, builderVars, rateVars, clientVars >>

\* Everything but the rate limiter's state.
notRate == << reflVars, normVars, builderVars, retryVars, clientVars >>

\* A local that is not bound (before its assignment, after the frame is gone).
Unbound == [unbound |-> TRUE]

\* No ReflectionResult was returned.
NoResult == [none |-> TRUE]

\* No exception was raised.
NoError == [type |-> "", origin |-> "", detail |-> <<>>]

\* Arguments of reflect: user_query, reflection_strategy, num_iterations, **kwargs.
ReflectArgs(q, st, n, kw) ==
    [user_query |-> q, reflection_strategy |-> st, num_iterations |-> n, kwargs |-> kw]

Queries == { <<"q1">>, <<"q2">> }

StrategyStrings ==
    {ValidOptions[i] : i \in DOMAIN ValidOptions} \cup {"not_a_strategy", "SELF_CRITIQUE"}

Kwargs == { EmptyMapping, [model |-> "m1", temperature |-> 0] }

(***************************************************************************)
(* The pieces of reflect                                                   *)
(***************************************************************************)

\* raise ValueError(f"Invalid reflection strategy ... Valid options: [...]")
InvalidStrategyError == [type |-> "ValueError", origin |-> "reflect", detail |-> ValidOptions]

\* generate(prompt, **kwargs) as the client sees it.
GenerateCall(prompt, kwargs) == [prompt |-> prompt, options |-> kwargs]

CallEvent(s, round, call) ==
    [session |-> s, kind |-> "call", round |-> round,
     prompt |-> call.prompt, options |-> call.options]

ReturnEvent(s, round, outcome) ==
    [session |-> s, kind |-> "return", round |-> round, outcome |-> outcome]

\* Locals kept on the manager instead of in the call's frame.
SharedLocals(s) == 1

\* The frame that holds the accumulators of session s: the call's own.
LocalsOf(s) == s

\* The counter replaced by the round's usage instead of increased by it.
OverwriteUsage(total, response, key) == UsageGet(response.usage, key)

\* total_..._tokens += reflection_response.usage.get(key, 0)
AddUsage(total, response, key) == total + UsageGet(response.usage, key)

\* A loop that runs once more than asked.
LoopOneMore(i, n) == i <= n

\* A loop that stops one round early.
LoopOneLess(i, n) == i < n - 1

\* for iteration_num in range(num_iterations): i is the next value, if any.
LoopContinues(i, n) == i < n

\* A 0-based ordinal.
OrdinalZeroBased(i) == i

\* "iteration": iteration_num + 1
IterationOrdinal(i) == i + 1

\* The record appended to iteration_responses.
IterationRecord(i, prompt, response) ==
    [iteration |-> IterationOrdinal(i), prompt |-> prompt, response |-> response.text]

\* The new record put in front of the earlier ones.
PrependRecord(iters, record) == << record >> \o iters

\* iteration_responses.append({...})
AppendRecord(iters, record) == Append(iters, record)

\* previous_response never updated.
KeepPrevious(prev, response) == prev

\* previous_response = reflection_response
NextPrevious(prev, response) == response

\* The prompt built from the previous round's prompt instead of user_query.
EvolvingPrompt(s, prev) ==
    BuildPrompt(strategy_enum[s],
                IF pc[s] = "Reflecting" THEN reflection_prompt[s] ELSE args[s].user_query,
                prev.text)

\* prompt_builder.build_prompt(original_query=user_query,
\*                             previous_response=previous_response.text)
ReflectionPrompt(s, prev) == BuildPrompt(strategy_enum[s], args[s].user_query, prev.text)

\* The reflection call made without the caller's options.
ReflectionCallNoOptions(s, prompt) == GenerateCall(prompt, EmptyMapping)

\* self.llm_client.generate(reflection_prompt, **kwargs)
ReflectionCall(s, prompt) == GenerateCall(prompt, args[s].kwargs)

\* self.llm_client.generate(user_query, **kwargs)
InitialCall(s) == GenerateCall(args[s].user_query, args[s].kwargs)

\* A result whose total counts the output tokens only.
AssembleOutputOnly(s, prev, iters, tin, tout) ==
    [original_query |-> args[s].user_query, iterations |-> iters,
     final_response |-> prev.text, strategy_used |-> strategy_enum[s],
     total_tokens |-> tout]

\* ReflectionResult(original_query=..., iterations=..., final_response=...,
\*                  strategy_used=..., total_tokens=...)
AssembleResult(s, prev, iters, tin, tout) ==
    [original_query |-> args[s].user_query, iterations |-> iters,
     final_response |-> prev.text, strategy_used |-> strategy_enum[s],
     total_tokens |-> tout + tin]

\* The rest of reflect once a response is in hand: the next reflection round's
\* call, or the result when the loop is over.
Proceed(s, prev, tin, tout, iters, i, tr) ==
    /\ previous_response' = [previous_response EXCEPT ![s] = prev]
    /\ total_input_tokens' = [total_input_tokens EXCEPT ![LocalsOf(s)] = tin]
    /\ total_output_tokens' = [total_output_tokens EXCEPT ![LocalsOf(s)] = tout]
    /\ iteration_responses' = [iteration_responses EXCEPT ![LocalsOf(s)] = iters]
    /\ IF LoopContinues(i, args[s].num_iterations)
       THEN LET prompt == ReflectionPrompt(s, prev) IN
            /\ pc' = [pc EXCEPT ![s] = "Reflecting"]
            /\ iteration_num' = [iteration_num EXCEPT ![s] = i]
            /\ reflection_prompt' = [reflection_prompt EXCEPT ![s] = prompt]
            /\ trace' = Append(tr, CallEvent(s, i + 1, ReflectionCall(s, prompt)))
            /\ UNCHANGED result
       ELSE /\ pc' = [pc EXCEPT ![s] = "Completed"]
            /\ result' = [result EXCEPT ![s] = AssembleResult(s, prev, iters, tin, tout)]
            /\ trace' = tr
            /\ UNCHANGED << iteration_num, reflection_prompt >>
    /\ UNCHANGED << llm_client, args, strategy_enum, raised >>
    /\ UNCHANGED notRefl

(***************************************************************************)
(* Actions                                                                 *)
(***************************************************************************)

\* reflect, lines 155-162: the strategy string names no member.
InvalidStrategy(s) ==
    /\ pc[s] = "Initializing"
    /\ LookupStrategy(args[s].reflection_strategy) = NoMember
    /\ pc' = [pc EXCEPT ![s] = "Raised"]
    /\ raised' = [raised EXCEPT ![s] = InvalidStrategyError]
    /\ UNCHANGED << llm_client, args, strategy_enum, previous_response,
                    total_input_tokens, total_output_tokens, iteration_responses,
                    iteration_num, reflection_prompt, result, trace >>
    /\ UNCHANGED notRefl

\* reflect, lines 155-165: the strategy resolves and round 0's generate is called.
InitialGenerate(s) ==
    /\ pc[s] = "Initializing"
    /\ LookupStrategy(args[s].reflection_strategy) # NoMember
    /\ strategy_enum' = [strategy_enum EXCEPT
                           ![s] = LookupStrategy(args[s].reflection_strategy)]
    /\ trace' = Append(trace, CallEvent(s, 0, InitialCall(s)))
    /\ pc' = [pc EXCEPT ![s] = "Generating"]
    /\ UNCHANGED << llm_client, args, previous_response, total_input_tokens,
                    total_output_tokens, iteration_responses, iteration_num,
                    reflection_prompt, result, raised >>
    /\ UNCHANGED notRefl

\* reflect, lines 165-170 and on: round 0's generate returns a response.
InitialReturns(s) ==
    /\ pc[s] = "Generating"
    /\ \E o \in llm_client.outcomes :
         /\ o.kind = "ok"
         /\ Proceed(s, o,
                    UsageGet(o.usage, "input_tokens"),
                    UsageGet(o.usage, "output_tokens"),
                    << >>, 0,
                    Append(trace, ReturnEvent(s, 0, o)))

\* The exception leaves reflect and a partial result is kept as well.
UnwindKeepingPartial(s, error, tr) ==
    /\ pc' = [pc EXCEPT ![s] = "Raised"]
    /\ raised' = [raised EXCEPT ![s] = error]
    /\ result' = [result EXCEPT ![s] =
                    [NoResult EXCEPT !.none = FALSE]]
    /\ trace' = tr
    /\ UNCHANGED << llm_client, args, strategy_enum, previous_response,
                    total_input_tokens, total_output_tokens, iteration_responses,
                    iteration_num, reflection_prompt >>
    /\ UNCHANGED notRefl

\* The exception of a generate call leaves reflect.
Unwind(s, error, tr) ==
    /\ pc' = [pc EXCEPT ![s] = "Raised"]
    /\ raised' = [raised EXCEPT ![s] = error]
    /\ trace' = tr
    /\ UNCHANGED << llm_client, args, strategy_enum, previous_response,
                    total_input_tokens, total_output_tokens, iteration_responses,
                    iteration_num, reflection_prompt, result >>
    /\ UNCHANGED notRefl

\* reflect, line 165: round 0's generate raises; nothing catches it.
InitialFails(s) ==
    /\ pc[s] = "Generating"
    /\ \E o \in llm_client.outcomes :
         /\ o.kind = "fail"
         /\ Unwind(s, o.error, Append(trace, ReturnEvent(s, 0, o)))

\* reflect, lines 184-199 and on: a reflection round's generate returns.
ReflectionReturns(s) ==
    /\ pc[s] = "Reflecting"
    /\ \E o \in llm_client.outcomes :
         /\ o.kind = "ok"
         /\ LET i == iteration_num[s] IN
            Proceed(s, NextPrevious(previous_response[s], o),
                    AddUsage(total_input_tokens[LocalsOf(s)], o, "input_tokens"),
                    AddUsage(total_output_tokens[LocalsOf(s)], o, "output_tokens"),
                    AppendRecord(iteration_responses[LocalsOf(s)],
                                 IterationRecord(i, reflection_prompt[s], o)),
                    i + 1,
                    Append(trace, ReturnEvent(s, i + 1, o)))

\* The failure caught and a partial result returned instead.
DegradeOnFailure(s, o) ==
    /\ pc' = [pc EXCEPT ![s] = "Completed"]
    /\ result' = [result EXCEPT ![s] =
                    AssembleResult(s, previous_response[s],
                                   iteration_responses[LocalsOf(s)],
                                   total_input_tokens[LocalsOf(s)],
                                   total_output_tokens[LocalsOf(s)])]
    /\ trace' = Append(trace, ReturnEvent(s, iteration_num[s] + 1, o))
    /\ UNCHANGED << llm_client, args, strategy_enum, previous_response,
                    total_input_tokens, total_output_tokens, iteration_responses,
                    iteration_num, reflection_prompt, raised >>
    /\ UNCHANGED notRefl

\* reflect, lines 183-187: an LLMProviderError is logged and re-raised as it is;
\* any other exception is not caught at all.
OnReflectionFailure(s, o) ==
    IF o.error.type = "LLMProviderError"
    THEN Unwind(s, o.error, Append(trace, ReturnEvent(s, iteration_num[s] + 1, o)))
    ELSE Unwind(s, o.error, Append(trace, ReturnEvent(s, iteration_num[s] + 1, o)))

\* reflect, lines 183-187: a reflection round's generate raises.
ReflectionFails(s) ==
    /\ pc[s] = "Reflecting"
    /\ \E o \in llm_client.outcomes :
         /\ o.kind = "fail"
         /\ OnReflectionFailure(s, o)

(***************************************************************************)
(* normalize_usage and LLMResponse validation (utils.py)                   *)
(***************************************************************************)

\* Python values a raw usage mapping may hold: an int, None, a numeric string.
IntV(n) == [t |-> "int", v |-> n]

NoneV == [t |-> "none", v |-> 0]

\* The string of the decimal digits of n.
StrV(n) == [t |-> "str", v |-> n]

\* What an ill-typed + yields here (the code gets a TypeError).
TypeErrorV == [t |-> "TypeError", v |-> 0]

\* The keys the providers use and normalize_usage reads.
RawKeys ==
    {"inputTokens", "outputTokens", "prompt_tokens", "completion_tokens",
     "input_tokens", "output_tokens", "total_tokens"}

\* A token count of its own for each key, so that the key read shows in the result.
KeyValue(k) ==
    CASE k = "inputTokens" -> 10
      [] k = "outputTokens" -> 20
      [] k = "prompt_tokens" -> 11
      [] k = "completion_tokens" -> 21
      [] k = "input_tokens" -> 12
      [] k = "output_tokens" -> 22
      [] k = "total_tokens" -> 5

\* Values a provider should not send but a mapping can hold.
OddValues == { NoneV, StrV(7), IntV(-1) }

\* Provider tags the clients pass ("gemini" and "anthropic" take the fallback).
Providers == {"bedrock", "openai", "ollama", "generic", "anthropic"}

\* a + b on Python values: int + int, str + str (one-digit strings), else TypeError.
PyAdd(a, b) ==
    IF a.t = "int" /\ b.t = "int" THEN IntV(a.v + b.v)
    ELSE IF a.t = "str" /\ b.t = "str" THEN StrV(a.v * 10 + b.v)
    ELSE TypeErrorV

\* get with the default ignored: None for a missing key.
DictGetNone(d, k, default) == IF k \in DOMAIN d THEN d[k] ELSE NoneV

\* d.get(k, default)
DictGet(d, k, default) == IF k \in DOMAIN d THEN d[k] ELSE default

Returns3(i, o, t) ==
    [raised |-> FALSE, error |-> "",
     value |-> [input_tokens |-> i, output_tokens |-> o, total_tokens |-> t]]

Raises(e) == [raised |-> TRUE, error |-> e, value |-> EmptyMapping]

\* The Bedrock branch with the total copied from the raw mapping.
BedrockCopiesTotal(d) ==
    Returns3(DictGet(d, "inputTokens", IntV(0)), DictGet(d, "outputTokens", IntV(0)),
             DictGet(d, "total_tokens", IntV(0)))

\* normalize_usage, provider == "bedrock"
NormalizeBedrock(d) ==
    LET i == DictGet(d, "inputTokens", IntV(0))
        o == DictGet(d, "outputTokens", IntV(0))
        t == PyAdd(DictGet(d, "inputTokens", IntV(0)), DictGet(d, "outputTokens", IntV(0)))
    IN  IF t = TypeErrorV THEN Raises("TypeError") ELSE Returns3(i, o, t)

\* The OpenAI branch with the fallback keys read first.
OpenAIFallbackFirst(d) ==
    Returns3(DictGet(d, "inputTokens", DictGet(d, "prompt_tokens", IntV(0))),
             DictGet(d, "outputTokens", DictGet(d, "completion_tokens", IntV(0))),
             DictGet(d, "total_tokens", IntV(0)))

\* normalize_usage, provider in ("openai", "ollama")
NormalizeOpenAI(d) ==
    Returns3(DictGet(d, "prompt_tokens", DictGet(d, "inputTokens", IntV(0))),
             DictGet(d, "completion_tokens", DictGet(d, "outputTokens", IntV(0))),
             DictGet(d, "total_tokens", IntV(0)))

\* The fallback branch with the last two keys of each chain swapped.
GenericSwappedChain(d) ==
    Returns3(DictGet(d, "input_tokens",
                     DictGet(d, "prompt_tokens", DictGet(d, "inputTokens", IntV(0)))),
             DictGet(d, "output_tokens",
                     DictGet(d, "completion_tokens", DictGet(d, "outputTokens", IntV(0)))),
             DictGet(d, "total_tokens", IntV(0)))

\* normalize_usage, any other provider
NormalizeGeneric(d) ==
    Returns3(DictGet(d, "input_tokens",
                     DictGet(d, "inputTokens", DictGet(d, "prompt_tokens", IntV(0)))),
             DictGet(d, "output_tokens",
                     DictGet(d, "outputTokens", DictGet(d, "completion_tokens", IntV(0)))),
             DictGet(d, "total_tokens", IntV(0)))

\* normalize_usage(usage_dict, provider)
NormalizeUsage(d, p) ==
    IF p = "bedrock" THEN NormalizeBedrock(d)
    ELSE IF p \in {"openai", "ollama"} THEN NormalizeOpenAI(d)
    ELSE NormalizeGeneric(d)

\* A usage field typed Dict[str, Any]: every value is taken as it is.
ValidateAny(x) == x

\* usage: Dict[str, int] -- an int is kept, a numeric string is converted,
\* None is refused.
ValidateInt(x) ==
    IF x.t = "int" THEN x
    ELSE IF x.t = "str" THEN IntV(x.v)
    ELSE TypeErrorV

\* LLMResponse(text=..., usage=usage): the validated usage, or a ValidationError.
ValidateUsage(usage) ==
    LET checked == [k \in DOMAIN usage |-> ValidateInt(usage[k])] IN
    IF \E k \in DOMAIN checked : checked[k] = TypeErrorV
    THEN [valid |-> FALSE, usage |-> EmptyMapping]
    ELSE [valid |-> TRUE, usage |-> checked]

NoOut == [raised |-> FALSE, error |-> "", value |-> EmptyMapping]

NoResponse == [valid |-> FALSE, usage |-> EmptyMapping]

\* normalize_usage runs on the mapping a provider returned.
NormalizeCall ==
    /\ norm_pc = "called"
    /\ norm_out' = NormalizeUsage(usage_dict, provider)
    /\ norm_pc' = IF norm_out'.raised THEN "raised" ELSE "returned"
    /\ UNCHANGED << usage_dict, provider, norm_resp, usage_before >>
    /\ UNCHANGED notNorm

\* The client builds LLMResponse(text=..., usage=usage, stop_reason=...).
BuildResponse ==
    /\ norm_pc = "returned"
    /\ norm_resp' = ValidateUsage(norm_out.value)
    /\ norm_pc' = IF norm_resp'.valid THEN "response" ELSE "invalid"
    /\ UNCHANGED << usage_dict, provider, norm_out, usage_before >>
    /\ UNCHANGED notNorm

\* The normalizer is not in use.
NormOff ==
    /\ usage_dict = EmptyMapping
    /\ provider = "generic"
    /\ norm_pc = "off"
    /\ norm_out = NoOut
    /\ norm_resp = NoResponse
    /\ usage_before = EmptyMapping

\* A client is about to normalize a raw usage mapping: any subset of the keys,
\* each with its own count or with an odd value.
InitNormalizer ==
    /\ \E present \in SUBSET RawKeys :
         \E odd \in SUBSET present, ov \in OddValues :
            usage_dict = [k \in present |-> IF k \in odd THEN ov ELSE IntV(KeyValue(k))]
    /\ usage_before = usage_dict
    /\ provider \in Providers
    /\ norm_pc = "called"
    /\ norm_out = NoOut
    /\ norm_resp = NoResponse

NextNorm ==
    \/ NormalizeCall
    \/ BuildResponse

(***************************************************************************)
(* ReflectionPromptBuilder on its own                                      *)
(***************************************************************************)

\* Fragments of text; one of them looks like a replacement field.
Alphabet == {"a", "{response}"}

\* All texts of at most n fragments.
RECURSIVE TextsUpTo(_)
TextsUpTo(n) ==
    IF n = 0 THEN { << >> }
    ELSE LET shorter == TextsUpTo(n - 1) IN
         shorter \cup { Append(t, c) : t \in {u \in shorter : Len(u) = n - 1}, c \in Alphabet }

\* What a builder may hold that is no member of ReflectionStrategy: the bare
\* string of a value, a member of some other enumeration.
OutsideTags ==
    { [name |-> "", value |-> "self_critique"], [name |-> "REWRITE", value |-> "rewrite"] }

\* A strategy_map with no entry for ADVERSARIAL.
HandlerMissing(strategy) ==
    strategy \in Members /\ strategy.name # "ADVERSARIAL"

\* self.strategy is a key of strategy_map.
HasHandler(strategy) == strategy \in Members

\* build_prompt: strategy_map[self.strategy](original_query, previous_response),
\* a KeyError when self.strategy is no key of strategy_map.
BuildPromptOutcome(strategy, original_query, prev) ==
    IF HasHandler(strategy)
    THEN [raised |-> FALSE, error |-> "",
          prompt |-> BuildPrompt(strategy, original_query, prev)]
    ELSE [raised |-> TRUE, error |-> "KeyError", prompt |-> << >>]

\* One more build_prompt call on the builder, with the same arguments.
BuildPromptCall ==
    /\ Len(bp_outs) < MaxBuilds
    /\ bp_outs' = Append(bp_outs, BuildPromptOutcome(bp_strategy, bp_query, bp_prev))
    /\ UNCHANGED << bp_strategy, bp_query, bp_prev >>
    /\ UNCHANGED notBuilder

\* No builder is in use.
BuilderOff ==
    /\ bp_strategy = NoMember
    /\ bp_query = << >>
    /\ bp_prev = << >>
    /\ bp_outs = << >>

\* ReflectionPromptBuilder(strategy), and the arguments of its build_prompt calls.
InitBuilder ==
    /\ bp_strategy \in Members \cup OutsideTags
    /\ bp_query \in TextsUpTo(MaxLen)
    /\ bp_prev \in TextsUpTo(MaxLen)
    /\ bp_outs = << >>

NextBuilder == BuildPromptCall

(***************************************************************************)
(* retry_call                                                              *)
(***************************************************************************)

\* Exception classes func may raise; KeyboardInterrupt is no subclass of Exception.
ExceptionSubclasses == {"TimeoutError", "ValueError"}
RaisedTypes == ExceptionSubclasses \cup {"KeyboardInterrupt"}

\* Values func may return.
FuncValues == {"r1", "r2"}

\* The exceptions argument: the default (Exception,), or one class.
ExceptionTuples == { {"Exception"}, {"TimeoutError"} }

\* The backoff argument.
Backoffs == {1, 2}

\* last_exc = None
NoExc == [type |-> "None", at |-> 0]

\* The exception object func raises in its k-th invocation.
Exc(type, k) == [type |-> type, at |-> k]

\* isinstance(e, exceptions) of the except clause.
IsRetryable(e, exceptions) ==
    \/ e.type \in exceptions
    \/ "Exception" \in exceptions /\ e.type \in ExceptionSubclasses

FuncOk(v) == [ok |-> TRUE, value |-> v, exc |-> NoExc]
FuncErr(e) == [ok |-> FALSE, value |-> "", exc |-> e]

NoOutcome == [kind |-> "none", value |-> "", exc |-> NoExc]
ReturnedValue(v) == [kind |-> "returned", value |-> v, exc |-> NoExc]
RaisedExc(e) == [kind |-> "raised", value |-> "", exc |-> e]

\* raise last_exc: raising None is a TypeError.
RaiseLast(e) ==
    IF e = NoExc THEN RaisedExc(Exc("TypeError", 0)) ELSE RaisedExc(e)

\* A handler that remembers the first exception only.
FirstExc(last, e) == IF last = NoExc THEN e ELSE last

\* last_exc = e
LastExc(last, e) == e

\* while attempt < retries
MayAttempt(a, retries) == a < retries

\* The uncaught exception replaced by the last caught one.
PropagateLast(last, e) == RaiseLast(last)

\* An exception the except clause does not catch leaves retry_call as it is.
Propagate(last, e) == RaisedExc(e)

\* A backoff that stays what it was.
SameDelay(d) == d

\* delay *= 2
Doubled(d) == d * 2

\* The while test fails on entry: no attempt is made, raise last_exc.
NoAttempt ==
    /\ retry_pc = "loop"
    /\ ~MayAttempt(attempt, retry_args.retries)
    /\ retry_pc' = "done"
    /\ retry_out' = RaiseLast(last_exc)
    /\ UNCHANGED << retry_args, attempt, delay, last_exc, func_calls, sleeps >>
    /\ UNCHANGED notRetry

\* return func()
FuncReturns ==
    /\ retry_pc = "loop"
    /\ MayAttempt(attempt, retry_args.retries)
    /\ \E v \in FuncValues :
         /\ func_calls' = Append(func_calls, FuncOk(v))
         /\ retry_out' = ReturnedValue(v)
    /\ retry_pc' = "done"
    /\ UNCHANGED << retry_args, attempt, delay, last_exc, sleeps >>
    /\ UNCHANGED notRetry

\* func() raises an exception the except clause catches.
FuncRaisesRetryable ==
    /\ retry_pc = "loop"
    /\ MayAttempt(attempt, retry_args.retries)
    /\ \E type \in RaisedTypes :
         LET e == Exc(type, Len(func_calls) + 1) IN
         /\ IsRetryable(e, retry_args.exceptions)
         /\ func_calls' = Append(func_calls, FuncErr(e))
         /\ last_exc' = LastExc(last_exc, e)
         /\ attempt' = attempt + 1
         /\ IF attempt' >= retry_args.retries
            THEN /\ retry_pc' = "done"
                 /\ retry_out' = RaiseLast(last_exc')
            ELSE /\ retry_pc' = "sleep"
                 /\ UNCHANGED retry_out
    /\ UNCHANGED << retry_args, delay, sleeps >>
    /\ UNCHANGED notRetry

\* func() raises an exception the except clause does not catch.
FuncRaisesOther ==
    /\ retry_pc = "loop"
    /\ MayAttempt(attempt, retry_args.retries)
    /\ \E type \in RaisedTypes :
         LET e == Exc(type, Len(func_calls) + 1) IN
         /\ ~IsRetryable(e, retry_args.exceptions)
         /\ func_calls' = Append(func_calls, FuncErr(e))
         /\ retry_out' = Propagate(last_exc, e)
    /\ retry_pc' = "done"
    /\ UNCHANGED << retry_args, attempt, delay, last_exc, sleeps >>
    /\ UNCHANGED notRetry

\* time.sleep(delay); delay *= 2
Sleep ==
    /\ retry_pc = "sleep"
    /\ sleeps' = Append(sleeps, delay)
    /\ delay' = Doubled(delay)
    /\ retry_pc' = "loop"
    /\ UNCHANGED << retry_args, attempt, last_exc, retry_out, func_calls >>
    /\ UNCHANGED notRetry

\* retry_call is not in use.
RetryOff ==
    /\ retry_args = [retries |-> 0, backoff |-> 1, exceptions |-> {"Exception"}]
    /\ retry_pc = "off"
    /\ attempt = 0
    /\ delay = 1
    /\ last_exc = NoExc
    /\ retry_out = NoOutcome
    /\ func_calls = << >>
    /\ sleeps = << >>

\* retry_call(func, retries, backoff, exceptions) has been entered.
InitRetry ==
    /\ \E r \in 0 .. MaxRetries, b \in Backoffs, x \in ExceptionTuples :
         /\ retry_args = [retries |-> r, backoff |-> b, exceptions |-> x]
         /\ delay = b
    /\ retry_pc = "loop"
    /\ attempt = 0
    /\ last_exc = NoExc
    /\ retry_out = NoOutcome
    /\ func_calls = << >>
    /\ sleeps = << >>

NextRetry ==
    \/ NoAttempt
    \/ FuncReturns
    \/ FuncRaisesRetryable
    \/ FuncRaisesOther
    \/ Sleep

(***************************************************************************)
(* RateLimiter                                                             *)
(***************************************************************************)

\* Threads that share the limiter.
Threads == {"t1", "t2"}

\* timeout = None
NoTimeout == -1

\* The (blocking, timeout) arguments of acquire; a timeout is in clock ticks.
AcquireModes ==
    { [blocking |-> FALSE, timeout |-> NoTimeout],
      [blocking |-> TRUE, timeout |-> NoTimeout],
      [blocking |-> TRUE, timeout |-> 1] }

Max(a, b) == IF a >= b THEN a ELSE b
Min(a, b) == IF a <= b THEN a ELSE b

\* A thread that is not inside acquire and has called it never.
Idle == [pc |-> "idle", blocking |-> TRUE, timeout |-> NoTimeout, start |-> 0,
         ret |-> "none"]

\* A thread whose acquire call has returned v.
AcquireReturned(v) == [Idle EXCEPT !.ret = v]

\* A decrement that takes two tokens.
TakenTwice(tokens) == tokens - 2

\* self._tokens -= 1
Taken(tokens) == tokens - 1

\* A bucket without a ceiling.
RefilledUncapped(calls, tokens, refill_tokens) == tokens + refill_tokens

\* min(self.calls, self._tokens + int(refill_tokens))
Refilled(calls, tokens, refill_tokens) == Min(calls, tokens + refill_tokens)

\* A _refill that sets _last at every reading, refilled or not.
RefillRestartingClock(l, t) ==
    LET elapsed == t - l.last IN
    IF elapsed <= 0 THEN l
    ELSE IF elapsed * l.calls >= l.period
         THEN [l EXCEPT !.tokens = Refilled(l.calls, l.tokens,
                                            (elapsed * l.calls) \div l.period),
                        !.last = t]
         ELSE [l EXCEPT !.last = t]

\* _refill at clock reading t; refill_tokens = (elapsed / period) * calls, so
\* refill_tokens >= 1 iff elapsed * calls >= period, and int(refill_tokens) is
\* the integer quotient.
Refill(l, t) ==
    LET elapsed == t - l.last IN
    IF elapsed <= 0 THEN l
    ELSE IF elapsed * l.calls >= l.period
         THEN [l EXCEPT !.tokens = Refilled(l.calls, l.tokens,
                                            (elapsed * l.calls) \div l.period),
                        !.last = t]
         ELSE l

\* A test that sees the count as it was before another thread's decrement.
HasTokenStale(tokens) == tokens + 1 > 0

\* if self._tokens > 0
HasToken(tokens) == tokens > 0

\* Nothing granted and nothing added yet.
NoTally == [granted |-> 0, added |-> 0]

\* The tally is not kept: the history of a run without end has no bound.
TallyOff == [granted |-> -1, added |-> -1]

\* The tally after a locked step on limiter l at clock reading t that granted
\* g tokens.
Tallied(ty, l, t, g) ==
    IF ty = TallyOff THEN ty
    ELSE [granted |-> ty.granted + g,
          added |-> ty.added + (Refill(l, t).tokens - l.tokens)]

\* The grants that are less than one period old at clock reading t.
StillRecent(times, t, period) ==
    SelectSeq(times, LAMBDA g : g > t - period)

\* acquire(blocking, timeout) is entered: start = time.monotonic()
AcquireCall(t) ==
    /\ acq[t].pc = "idle"
    /\ \E m \in AcquireModes :
         acq' = [acq EXCEPT ![t] = [pc |-> "locked", blocking |-> m.blocking,
                                    timeout |-> m.timeout, start |-> now,
                                    ret |-> "none"]]
    /\ UNCHANGED << limiter, now, recent, tally >>
    /\ UNCHANGED notRate

\* with self._lock: refill, and take a token if there is one.
Poll(t) ==
    /\ acq[t].pc = "locked"
    /\ LET l == Refill(limiter, now) IN
       IF HasToken(l.tokens)
       THEN /\ limiter' = [l EXCEPT !.tokens = Taken(l.tokens)]
            /\ acq' = [acq EXCEPT ![t] = AcquireReturned("True")]
            /\ recent' = Append(recent, now)
            /\ tally' = Tallied(tally, limiter, now, 1)
       ELSE /\ limiter' = l
            /\ acq' = [acq EXCEPT ![t].pc = "unlocked"]
            /\ tally' = Tallied(tally, limiter, now, 0)
            /\ UNCHANGED recent
    /\ UNCHANGED now
    /\ UNCHANGED notRate

\* After the lock is released without a token: return False when not blocking
\* or when the timeout has passed, else time.sleep(0.05).
GiveUpOrSleep(t) ==
    /\ acq[t].pc = "unlocked"
    /\ IF ~acq[t].blocking
       THEN acq' = [acq EXCEPT ![t] = AcquireReturned("False")]
       ELSE IF acq[t].timeout # NoTimeout /\ now - acq[t].start >= acq[t].timeout
            THEN acq' = [acq EXCEPT ![t] = AcquireReturned("False")]
            ELSE acq' = [acq EXCEPT ![t].pc = "sleeping"]
    /\ UNCHANGED << limiter, now, recent, tally >>
    /\ UNCHANGED notRate

\* time.sleep(0.05) returns; the sleep is shorter than one clock tick.
Wake(t) ==
    /\ acq[t].pc = "sleeping"
    /\ acq' = [acq EXCEPT ![t].pc = "locked"]
    /\ UNCHANGED << limiter, now, recent, tally >>
    /\ UNCHANGED notRate

\* The clock advances by one tick.
Tick ==
    /\ now < MaxTime
    /\ now' = now + 1
    /\ recent' = StillRecent(recent, now', limiter.period)
    /\ UNCHANGED << limiter, acq, tally >>
    /\ UNCHANGED notRate

\* The reading start of a call in progress, one tick further in the past; a
\* reading older than the timeout is as good as one that is exactly as old.
Aged(a) ==
    IF a.timeout = NoTimeout THEN a
    ELSE [a EXCEPT !.start = Max(a.start - 1, now - a.timeout)]

\* The clock advances by one tick, written with the origin of the clock moved
\* along: every stored reading is one tick older. _refill gives a full bucket
\* for every elapsed >= period, so _last is kept no older than that.
TickRebased ==
    /\ limiter' = [limiter EXCEPT !.last = Max(@ - 1, now - limiter.period)]
    /\ acq' = [t \in Threads |-> Aged(acq[t])]
    /\ recent' = StillRecent([i \in DOMAIN recent |-> recent[i] - 1], now,
                             limiter.period)
    /\ UNCHANGED << now, tally >>
    /\ UNCHANGED notRate

\* One step of thread t inside acquire.
ThreadStep(t) == Poll(t) \/ GiveUpOrSleep(t) \/ Wake(t)

NextRateLive ==
    \/ TickRebased
    \/ \E t \in Threads :
         \/ AcquireCall(t)
         \/ Poll(t)
         \/ GiveUpOrSleep(t)
         \/ Wake(t)

\* No RateLimiter is in use.
RateOff ==
    /\ limiter = [calls |-> 1, period |-> 1, tokens |-> 0, last |-> 0]
    /\ now = 0
    /\ acq = [t \in Threads |-> [Idle EXCEPT !.pc = "off"]]
    /\ recent = << >>
    /\ tally = NoTally

\* RateLimiter(calls, period) has been constructed.
InitRate ==
    /\ now = 0
    /\ \E c \in 0 .. MaxCalls, p \in 0 .. MaxPeriod :
         limiter = [calls |-> Max(1, c), period |-> Max(1, p),
                    tokens |-> Max(1, c), last |-> now]
    /\ acq = [t \in Threads |-> Idle]
    /\ recent = << >>
    /\ tally = NoTally

NextRate ==
    \/ Tick
    \/ \E t \in Threads :
         \/ AcquireCall(t)
         \/ Poll(t)
         \/ GiveUpOrSleep(t)
         \/ Wake(t)

(***************************************************************************)
(* Provider clients                                                        *)
(***************************************************************************)

\* The client classes.
ClientKinds == {"openai", "bedrock", "ollama", "anthropic", "gemini"}

\* The clients that wrap generate in try / except Exception.
WrappingClients == {"openai", "bedrock", "ollama", "anthropic"}

\* The clients with a streaming path that is taken when stream is set.
StreamingClients == {"openai", "ollama", "anthropic"}

\* The clients whose non-streaming path calls rate_limiter.acquire().
AcquiringClients == {"openai", "bedrock"}

\* The rate_limit option: absent, or a configuration.
NoRateLimit == [set |-> FALSE, calls |-> 0, period |-> 0]
RateLimits == { NoRateLimit, [set |-> TRUE, calls |-> 2, period |-> 1] }

\* The retry argument of GeminiClient.generate; the other clients pass 3.
GeminiRetries == {0, 2}
ClientRetries == 3

\* The provider tag the client gives to normalize_usage.
ProviderTag(client) == client

\* The usage mapping of the provider's reply: "r1" stands for a reply with
\* integer counts, "r2" for a reply whose input count is null.
RawUsage(client, v) ==
    LET count == IF v = "r1" THEN IntV(3) ELSE NoneV IN
    IF client = "bedrock"
    THEN [inputTokens |-> count, outputTokens |-> IntV(4), totalTokens |-> IntV(7)]
    ELSE IF client \in {"openai", "ollama"}
    THEN [prompt_tokens |-> count, completion_tokens |-> IntV(4), total_tokens |-> IntV(7)]
    ELSE [input_tokens |-> count, output_tokens |-> IntV(4)]

NoGenOutcome == [kind |-> "none", type |-> "", usage |-> EmptyMapping]
GenResponse(usage) == [kind |-> "response", type |-> "", usage |-> usage]
GenRaised(type) == [kind |-> "raised", type |-> type, usage |-> EmptyMapping]
GenGenerator == [kind |-> "generator", type |-> "", usage |-> EmptyMapping]
GenChunks == [kind |-> "chunks", type |-> "", usage |-> EmptyMapping]

\* normalize_usage(...) and LLMResponse(...) on the provider's reply: the
\* response, or the exception one of the two raises.
PostProcess(client, v) ==
    LET n == NormalizeUsage(RawUsage(client, v), ProviderTag(client)) IN
    IF n.raised THEN GenRaised("TypeError")
    ELSE LET r == ValidateUsage(n.value) IN
         IF r.valid THEN GenResponse(r.usage) ELSE GenRaised("ValidationError")

\* A generate that lets every exception through.
NoWrap(client, type) == GenRaised(type)

\* except Exception as e: raise LLMProviderError(...), for the clients that
\* have the clause; KeyboardInterrupt is no Exception.
Wrap(client, type) ==
    IF client \in WrappingClients /\ type # "KeyboardInterrupt"
    THEN GenRaised("LLMProviderError")
    ELSE GenRaised(type)

\* RateLimiter(calls=calls, period=period) built at clock reading t.
NewLimiter(c, p, t) ==
    [calls |-> Max(1, c), period |-> Max(1, p), tokens |-> Max(1, c), last |-> t]

\* rate_limiter.acquire() on a limiter that has a token after the refill.
AcquireFrom(l, t) == [Refill(l, t) EXCEPT !.tokens = Taken(@)]

\* The acquire call the client makes now, as the history keeps it.
AcquireEvent(l) ==
    [gen |-> gen_count, at |-> Len(func_calls), tokens |-> Refill(l, now).tokens]

\* retry_call(func, retries=r, backoff=1.0) is entered.
EnterRetry(r) ==
    /\ retry_args' = [retries |-> r, backoff |-> 1, exceptions |-> {"Exception"}]
    /\ retry_pc' = "loop"
    /\ attempt' = 0
    /\ delay' = 1
    /\ last_exc' = NoExc
    /\ retry_out' = NoOutcome
    /\ func_calls' = << >>
    /\ sleeps' = << >>

\* The limiter this generate call uses: a new one when rate_limit is set.
LimiterOfCall ==
    IF gen_args.rate_limit.set
    THEN NewLimiter(gen_args.rate_limit.calls, gen_args.rate_limit.period, now)
    ELSE limiter

\* The tally of the limiter this generate call uses.
TallyOfCall == IF gen_args.rate_limit.set THEN NoTally ELSE tally

\* GeminiClient.generate, not streaming, with a rate_limit: `with rate_limit:`
\* on an object that is no context manager raises, AttributeError or TypeError
\* depending on the interpreter.
GeminiWithLimiter ==
    /\ gen_pc = "entry"
    /\ gen_client = "gemini"
    /\ gen_args.rate_limit.set
    /\ \E type \in {"AttributeError", "TypeError"} : gen_out' = GenRaised(type)
    /\ gen_pc' = "done"
    /\ UNCHANGED << gen_client, gen_args, gen_count, acquire_log >>
    /\ UNCHANGED << reflVars, normVars, builderVars, retryVars, rateVars >>

\* GeminiClient.generate, not streaming, without rate_limit:
\* retry_call(_call_once, retries=retry).
GeminiCall ==
    /\ gen_pc = "entry"
    /\ gen_client = "gemini"
    /\ ~gen_args.rate_limit.set
    /\ EnterRetry(gen_args.retry)
    /\ gen_pc' = "retrying"
    /\ UNCHANGED << gen_client, gen_args, gen_out, gen_count, acquire_log >>
    /\ UNCHANGED << reflVars, normVars, builderVars, rateVars >>

\* generate of the other clients with stream set: the limiter is built and the
\* generator is returned; nothing else runs yet.
StreamEntry ==
    /\ gen_pc = "entry"
    /\ gen_client \in StreamingClients
    /\ gen_args.stream
    /\ limiter' = LimiterOfCall
    /\ tally' = TallyOfCall
    /\ gen_out' = GenGenerator
    /\ gen_pc' = "generator"
    /\ UNCHANGED << gen_client, gen_args, gen_count, acquire_log >>
    /\ UNCHANGED << now, acq, recent >>
    /\ UNCHANGED << reflVars, normVars, builderVars, retryVars >>

\* The caller iterates the generator: acquire when there is a limiter, then one
\* provider call, outside retry_call and outside the try of generate.
StreamIterate ==
    /\ gen_pc = "generator"
    /\ IF gen_args.rate_limit.set
       THEN /\ limiter' = AcquireFrom(limiter, now)
            /\ tally' = Tallied(tally, limiter, now, 1)
            /\ acquire_log' = Append(acquire_log, AcquireEvent(limiter))
       ELSE UNCHANGED << limiter, tally, acquire_log >>
    /\ \/ /\ func_calls' = Append(func_calls, FuncOk("r1"))
          /\ gen_out' = GenChunks
       \/ \E type \in RaisedTypes :
            /\ func_calls' = Append(func_calls, FuncErr(Exc(type, 1)))
            /\ gen_out' = GenRaised(type)
    /\ gen_pc' = "done"
    /\ UNCHANGED << gen_client, gen_args, gen_count >>
    /\ UNCHANGED << retry_args, retry_pc, attempt, delay, last_exc, retry_out, sleeps >>
    /\ UNCHANGED << now, acq, recent >>
    /\ UNCHANGED << reflVars, normVars, builderVars >>

\* generate of the other clients, not streaming: the limiter is built, OpenAI
\* and Bedrock acquire once, and retry_call(lambda: <provider call>, retries=3,
\* backoff=1.0) is entered.
NonStreamEntry ==
    /\ gen_pc = "entry"
    /\ gen_client \in WrappingClients
    /\ ~(gen_client \in StreamingClients /\ gen_args.stream)
    /\ IF gen_args.rate_limit.set /\ gen_client \in AcquiringClients
       THEN /\ limiter' = AcquireFrom(LimiterOfCall, now)
            /\ tally' = Tallied(TallyOfCall, LimiterOfCall, now, 1)
            /\ acquire_log' = Append(acquire_log,
                                     [AcquireEvent(LimiterOfCall) EXCEPT !.at = 0])
       ELSE /\ limiter' = LimiterOfCall
            /\ tally' = TallyOfCall
            /\ UNCHANGED acquire_log
    /\ EnterRetry(ClientRetries)
    /\ gen_pc' = "retrying"
    /\ UNCHANGED << gen_client, gen_args, gen_out, gen_count >>
    /\ UNCHANGED << now, acq, recent >>
    /\ UNCHANGED << reflVars, normVars, builderVars >>

\* retry_call has returned or raised: the four clients build the LLMResponse
\* and turn every Exception into LLMProviderError; GeminiClient returns what
\* retry_call returned and lets what it raised through.
AfterRetry ==
    /\ gen_pc = "retrying"
    /\ retry_pc = "done"
    /\ gen_out' =
         IF retry_out.kind = "raised"
         THEN Wrap(gen_client, retry_out.exc.type)
         ELSE IF gen_client = "gemini"
              THEN GenResponse(ValidateUsage(
                       NormalizeUsage(RawUsage("gemini", "r1"), "gemini").value).usage)
              ELSE LET r == PostProcess(gen_client, retry_out.value) IN
                   IF r.kind = "raised" THEN Wrap(gen_client, r.type) ELSE r
    /\ gen_pc' = "done"
    /\ UNCHANGED << gen_client, gen_args, gen_count, acquire_log >>
    /\ UNCHANGED << reflVars, normVars, builderVars, retryVars, rateVars >>

\* The caller makes the next generate call on the same client.
NextGenerate ==
    /\ gen_pc = "done"
    /\ gen_count < MaxGenerates
    /\ gen_count' = gen_count + 1
    /\ gen_pc' = "entry"
    /\ gen_out' = NoGenOutcome
    /\ retry_args' = [retries |-> 0, backoff |-> 1, exceptions |-> {"Exception"}]
    /\ retry_pc' = "off"
    /\ attempt' = 0
    /\ delay' = 1
    /\ last_exc' = NoExc
    /\ retry_out' = NoOutcome
    /\ func_calls' = << >>
    /\ sleeps' = << >>
    /\ UNCHANGED << gen_client, gen_args, acquire_log >>
    /\ UNCHANGED << reflVars, normVars, builderVars, rateVars >>

\* No provider client is in use.
ClientOff ==
    /\ gen_client = "openai"
    /\ gen_args = [stream |-> FALSE, rate_limit |-> NoRateLimit, retry |-> 0]
    /\ gen_pc = "off"
    /\ gen_out = NoGenOutcome
    /\ gen_count = 0
    /\ acquire_log = << >>

\* A client with its SDK installed, and the options of the generate calls.
InitClient ==
    /\ gen_client \in ClientKinds
    /\ \E st \in BOOLEAN, rl \in RateLimits, r \in GeminiRetries :
         /\ gen_client = "gemini" => ~st
         /\ gen_client # "gemini" => r = 2
         /\ gen_args = [stream |-> st, rate_limit |-> rl, retry |-> r]
    /\ gen_pc = "entry"
    /\ gen_out = NoGenOutcome
    /\ gen_count = 1
    /\ acquire_log = << >>

NextClient ==
    \/ GeminiWithLimiter
    \/ GeminiCall
    \/ StreamEntry
    \/ StreamIterate
    \/ NonStreamEntry
    \/ AfterRetry
    \/ NextGenerate
    \/ NextRetry

(***************************************************************************)
(* Specifications                                                          *)
(***************************************************************************)

\* Locals before reflect has bound them.
InitLocals ==
    /\ strategy_enum = [s \in Sessions |-> NoMember]
    /\ previous_response = [s \in Sessions |-> Unbound]
    /\ total_input_tokens = [s \in Sessions |-> 0]
    /\ total_output_tokens = [s \in Sessions |-> 0]
    /\ iteration_responses = [s \in Sessions |-> << >>]
    /\ iteration_num = [s \in Sessions |-> 0]
    /\ reflection_prompt = [s \in Sessions |-> << >>]
    /\ result = [s \in Sessions |-> NoResult]
    /\ raised = [s \in Sessions |-> NoError]
    /\ trace = << >>

\* One caller has just called reflect on a manager built on the stub client.
Init ==
    /\ llm_client = [outcomes |-> StubOutcomes]
    /\ \E q \in Queries, st \in StrategyStrings, n \in -1 .. MaxIter, kw \in Kwargs :
         args = [s \in Sessions |-> ReflectArgs(q, st, n, kw)]
    /\ pc = [s \in Sessions |-> IF s = 1 THEN "Initializing" ELSE "Off"]
    /\ InitLocals
    /\ NormOff
    /\ BuilderOff
    /\ RetryOff
    /\ RateOff
    /\ ClientOff

\* Two callers have just called reflect on the same manager.
InitConc ==
    /\ llm_client = [outcomes |-> ConcOutcomes]
    /\ \E n1 \in 0 .. ConcIter, n2 \in 0 .. ConcIter,
          st2 \in {"adversarial", "not_a_strategy"} :
         args = [s \in Sessions |->
                   IF s = 1
                   THEN ReflectArgs(<<"q1">>, "self_critique", n1, EmptyMapping)
                   ELSE ReflectArgs(<<"q2">>, st2, n2,
                                    [model |-> "m1", temperature |-> 0])]
    /\ pc = [s \in Sessions |-> "Initializing"]
    /\ InitLocals
    /\ NormOff
    /\ BuilderOff
    /\ RetryOff
    /\ RateOff
    /\ ClientOff

Next ==
    \E s \in Sessions :
        \/ InvalidStrategy(s)
        \/ InitialGenerate(s)
        \/ InitialReturns(s)
        \/ InitialFails(s)
        \/ ReflectionReturns(s)
        \/ ReflectionFails(s)

Spec == Init /\ [][Next]_vars

SpecConc == InitConc /\ [][Next]_vars

\* What session s can do next.
SessionStep(s) ==
    \/ InvalidStrategy(s)
    \/ InitialGenerate(s)
    \/ InitialReturns(s)
    \/ InitialFails(s)
    \/ ReflectionReturns(s)
    \/ ReflectionFails(s)

\* reflect runs on, and every generate call it makes returns or fails.
SpecLive == Init /\ [][Next]_vars /\ \A s \in Sessions : WF_vars(SessionStep(s))

\* No reflect call is in progress.
ReflOff ==
    /\ llm_client = [outcomes |-> {}]
    /\ args = [s \in Sessions |-> ReflectArgs(<< >>, "self_critique", 0, EmptyMapping)]
    /\ pc = [s \in Sessions |-> "Off"]
    /\ InitLocals

InitNorm == ReflOff /\ InitNormalizer /\ BuilderOff /\ RetryOff /\ RateOff /\ ClientOff

SpecNorm == InitNorm /\ [][NextNorm]_vars

InitPrompt == ReflOff /\ NormOff /\ InitBuilder /\ RetryOff /\ RateOff /\ ClientOff

SpecPrompt == InitPrompt /\ [][NextBuilder]_vars

InitRetryCall == ReflOff /\ NormOff /\ BuilderOff /\ InitRetry /\ RateOff /\ ClientOff

SpecRetry == InitRetryCall /\ [][NextRetry]_vars

InitRateLimiter == ReflOff /\ NormOff /\ BuilderOff /\ RetryOff /\ InitRate /\ ClientOff

SpecRate == InitRateLimiter /\ [][NextRate]_vars

\* A RateLimiter whose history is not kept.
InitRateLive ==
    /\ ReflOff /\ NormOff /\ BuilderOff /\ RetryOff /\ ClientOff
    /\ now = 0
    /\ \E c \in 0 .. MaxCalls, p \in 0 .. MaxPeriod :
         limiter = [calls |-> Max(1, c), period |-> Max(1, p),
                    tokens |-> Max(1, c), last |-> now]
    /\ acq = [t \in Threads |-> Idle]
    /\ recent = << >>
    /\ tally = TallyOff

\* Time keeps advancing, and a thread inside acquire keeps running: the lock is
\* held for a few instructions and time.sleep(0.05) returns. Nothing makes a
\* caller call acquire, and the lock favours no thread.
SpecRateLive ==
    /\ InitRateLive
    /\ [][NextRateLive]_vars
    /\ WF_vars(TickRebased)
    /\ \A t \in Threads : WF_vars(ThreadStep(t))

InitProviderClient ==
    ReflOff /\ NormOff /\ BuilderOff /\ RetryOff /\ RateOff /\ InitClient

SpecClient == InitProviderClient /\ [][NextClient]_vars

(***************************************************************************)
(* What the history says about a session                                   *)
(***************************************************************************)

\* The generate calls session s made, in order.
Calls(s) == SelectSeq(trace, LAMBDA e : e.session = s /\ e.kind = "call")

\* The outcomes session s got back, in order.
Returns(s) == SelectSeq(trace, LAMBDA e : e.session = s /\ e.kind = "return")

\* Calls and outcomes of session s, in order.
SessionEvents(s) == SelectSeq(trace, LAMBDA e : e.session = s)

\* input_tokens + output_tokens of a returned response (an absent key counts 0).
Tokens(response) ==
    (IF "input_tokens" \in DOMAIN response.usage THEN response.usage["input_tokens"] ELSE 0)
    + (IF "output_tokens" \in DOMAIN response.usage THEN response.usage["output_tokens"] ELSE 0)

RECURSIVE SumTokens(_)
SumTokens(rets) ==
    IF rets = << >> THEN 0
    ELSE Tokens(Head(rets).outcome) + SumTokens(Tail(rets))

\* The five catalog values, as the documentation lists them.
CatalogValues ==
    {"self_critique", "alternative_generation", "confidence_assessment",
     "verification", "adversarial"}

\* The catalog member a valid strategy string names.
MemberOf(value) == CHOOSE m \in Members : m.value = value

Returned(s) == pc[s] = "Completed"

N(s) == args[s].num_iterations

(***************************************************************************)
(* Claims                                                                  *)
(***************************************************************************)

\* C1: a result returned for num_iterations = N >= 0 has total_tokens equal to
\* the sum of input_tokens + output_tokens over the usage of the initial
\* response and of the N reflection responses.
C1_TotalTokens ==
    \A s \in Sessions :
        (Returned(s) /\ N(s) >= 0) =>
            /\ Len(Returns(s)) = N(s) + 1
            /\ result[s].total_tokens = SumTokens(Returns(s))

\* Three calls of usage 1 + 2 each give a total of 9.
C1_Witness ==
    /\ Returned(1)
    /\ N(1) = 2
    /\ \A k \in DOMAIN Returns(1) : Tokens(Returns(1)[k].outcome) = 3
    /\ result[1].total_tokens = 9

\* C2: a result returned for num_iterations = N >= 0 has exactly N iteration
\* records.
C2_IterationsLength ==
    \A s \in Sessions :
        (Returned(s) /\ N(s) >= 0) => Len(result[s].iterations) = N(s)

C2_Witness ==
    /\ Returned(1)
    /\ N(1) = 2
    /\ Len(result[1].iterations) = 2

\* C3: once a generate call of a session has failed, the session makes no
\* further generate call, reflect has raised that very failure, and no
\* ReflectionResult is returned.
C3_FailFast ==
    \A s \in Sessions : \A k \in DOMAIN trace :
        (trace[k].session = s /\ trace[k].kind = "return"
                              /\ trace[k].outcome.kind = "fail") =>
            /\ pc[s] = "Raised"
            /\ raised[s] = trace[k].outcome.error
            /\ result[s] = NoResult
            /\ \A j \in DOMAIN trace : j > k => trace[j].session # s

\* The stub fails on the second reflection round.
C3_Witness ==
    /\ pc[1] = "Raised"
    /\ Len(Calls(1)) = 3
    /\ Len(Returns(1)) = 3
    /\ Returns(1)[3].outcome.kind = "fail"
    /\ raised[1].type = "LLMProviderError"
    /\ result[1] = NoResult

\* C4: a reflect call whose reflection_strategy is none of the five catalog
\* values raises the invalid-strategy error and the client's generate is
\* invoked zero times for it.
C4_InvalidStrategyBeforeGenerate ==
    \A s \in Sessions :
        (pc[s] \notin {"Off", "Initializing"}
            /\ args[s].reflection_strategy \notin CatalogValues) =>
            /\ pc[s] = "Raised"
            /\ raised[s] = InvalidStrategyError
            /\ result[s] = NoResult
            /\ Calls(s) = << >>

C4_Witness ==
    /\ args[1].reflection_strategy = "not_a_strategy"
    /\ pc[1] = "Raised"
    /\ raised[1].type = "ValueError"
    /\ trace = << >>

\* C5: in a returned result, final_response is the response text of the last
\* iteration record when N > 0; when N = 0 the iterations are empty,
\* final_response is the text of the initial response and the initial call's
\* tokens are counted.
C5_FinalResponse ==
    \A s \in Sessions :
        Returned(s) =>
            /\ N(s) > 0 =>
                 /\ result[s].iterations # << >>
                 /\ result[s].final_response =
                      result[s].iterations[Len(result[s].iterations)].response
                 /\ result[s].final_response =
                      Returns(s)[Len(Returns(s))].outcome.text
            /\ N(s) = 0 =>
                 /\ result[s].iterations = << >>
                 /\ Len(Returns(s)) = 1
                 /\ result[s].final_response = Returns(s)[1].outcome.text
                 /\ result[s].total_tokens = Tokens(Returns(s)[1].outcome)

\* The last round's text differs from the earlier ones.
C5_Witness ==
    /\ Returned(1)
    /\ N(1) = 2
    /\ Returns(1)[1].outcome.text = << >>
    /\ Returns(1)[2].outcome.text = <<"r1">>
    /\ result[1].final_response = <<"r2">>

\* C6: the prompt of reflection round i (sent to generate, and recorded in
\* iterations[i-1].prompt) is build_prompt(strategy, user_query, text of the
\* response of call i-1).
C6_PromptAnchoredOnQuery ==
    \A s \in Sessions :
        /\ \A i \in 1 .. (Len(Calls(s)) - 1) :
              Calls(s)[i + 1].prompt =
                  BuildPrompt(MemberOf(args[s].reflection_strategy),
                              args[s].user_query,
                              Returns(s)[i].outcome.text)
        /\ Returned(s) =>
              \A i \in DOMAIN result[s].iterations :
                  result[s].iterations[i].prompt =
                      BuildPrompt(MemberOf(args[s].reflection_strategy),
                                  args[s].user_query,
                                  Returns(s)[i].outcome.text)

\* Two rounds, whose previous responses differ.
C6_Witness ==
    /\ Returned(1)
    /\ N(1) = 2
    /\ args[1].reflection_strategy = "verification"
    /\ Returns(1)[1].outcome.text = <<"r1">>
    /\ Returns(1)[2].outcome.text = <<"r2">>
    /\ result[1].iterations[2].prompt =
         <<"Verify your previous response to this question: Question: ", "q1",
           " Your previous response: ", "r2",
           " Check whether your response satisfies these criteria.">>

\* C7: a session's generate calls are strictly sequential (call, outcome,
\* call, outcome, ..., rounds 0, 1, 2, ... in order, at most one call in
\* flight), the session is in Generating during round 0 and in Reflecting
\* during rounds 1..N, and a session that completed made exactly N + 1 calls.
C7_SequentialRounds ==
    \A s \in Sessions :
        LET ev == SessionEvents(s) IN
        /\ \A k \in DOMAIN ev :
              /\ ev[k].kind = (IF k % 2 = 1 THEN "call" ELSE "return")
              /\ ev[k].round = (k - 1) \div 2
        /\ pc[s] \in {"Off", "Initializing"} => ev = << >>
        /\ pc[s] = "Generating" => Len(ev) = 1
        /\ pc[s] = "Reflecting" =>
              /\ Len(ev) % 2 = 1
              /\ ev[Len(ev)].round \in 1 .. N(s)
        /\ pc[s] \in {"Completed", "Raised"} => Len(ev) % 2 = 0
        /\ Returned(s) =>
              /\ Len(Calls(s)) = (IF N(s) > 0 THEN N(s) ELSE 0) + 1
              /\ \A k \in DOMAIN Returns(s) : Returns(s)[k].outcome.kind = "ok"

C7_Witness ==
    /\ Returned(1)
    /\ N(1) = 2
    /\ Len(trace) = 6
    /\ trace[5].kind = "call"
    /\ trace[5].round = 2

\* C8: in a returned result, the record at (0-based) index i has
\* iteration = i + 1.
C8_Ordinals ==
    \A s \in Sessions :
        Returned(s) =>
            \A k \in DOMAIN result[s].iterations :
                result[s].iterations[k].iteration = (k - 1) + 1

C8_Witness ==
    /\ Returned(1)
    /\ Len(result[1].iterations) = 2
    /\ result[1].iterations[1].iteration = 1
    /\ result[1].iterations[2].iteration = 2

\* The result a session must return, computed from its own arguments and the
\* responses returned to its own generate calls.
OwnResult(s) ==
    LET rets == Returns(s) IN
    [original_query |-> args[s].user_query,
     iterations |-> [i \in 1 .. (Len(rets) - 1) |->
                       [iteration |-> i,
                        prompt |-> BuildPrompt(MemberOf(args[s].reflection_strategy),
                                               args[s].user_query,
                                               rets[i].outcome.text),
                        response |-> rets[i + 1].outcome.text]],
     final_response |-> rets[Len(rets)].outcome.text,
     strategy_used |-> MemberOf(args[s].reflection_strategy),
     total_tokens |-> SumTokens(rets)]

\* Session 1's calls and session 2's calls alternate in the history.
Interleaved ==
    \E i, j, k, l \in DOMAIN trace :
        /\ i < j /\ j < k /\ k < l
        /\ trace[i].session = 1 /\ trace[j].session = 2
        /\ trace[k].session = 1 /\ trace[l].session = 2

\* C9: when two reflect sessions interleave on one manager and client, the
\* result of each is the one its own arguments and the responses returned to
\* its own generate calls determine.
C9_SessionsIsolated ==
    \A s \in Sessions : Returned(s) => result[s] = OwnResult(s)

C9_Witness ==
    /\ Returned(1) /\ Returned(2)
    /\ N(1) = 1 /\ N(2) = 1
    /\ Interleaved
    /\ result[1].total_tokens = 6
    /\ result[2].total_tokens = 10

\* C10: every generate call of a session, the initial one and the reflection
\* ones, carries exactly the options the caller passed to reflect.
C10_OptionsForwarded ==
    \A s \in Sessions :
        \A k \in DOMAIN Calls(s) : Calls(s)[k].options = args[s].kwargs

C10_Witness ==
    /\ Returned(1)
    /\ N(1) = 2
    /\ args[1].kwargs = [model |-> "m1", temperature |-> 0]
    /\ Len(Calls(1)) = 3
    /\ Calls(1)[3].options = [model |-> "m1", temperature |-> 0]

(***************************************************************************)
(* Claims about normalize_usage                                            *)
(***************************************************************************)

CanonicalKeys == {"input_tokens", "output_tokens", "total_tokens"}

\* The raw mapping's value under key k, 0 when the key is absent.
RawOrZero(k) == IF k \in DOMAIN usage_before THEN usage_before[k] ELSE IntV(0)

\* The value under the first key of chain that the raw mapping has, 0 if none.
RECURSIVE FirstPresent(_)
FirstPresent(chain) ==
    IF chain = << >> THEN IntV(0)
    ELSE IF Head(chain) \in DOMAIN usage_before THEN usage_before[Head(chain)]
    ELSE FirstPresent(Tail(chain))

\* normalize_usage has run to its end, by a return or by an exception.
NormDone == norm_pc \in {"returned", "raised", "response", "invalid"}

\* C11: normalize_usage never raises, whatever the mapping holds and whatever
\* the provider tag, and it leaves the mapping it was given as it was.
C11_NeverFails ==
    NormDone => (norm_pc # "raised" /\ ~norm_out.raised /\ usage_dict = usage_before)

\* C12: with provider "bedrock" and integer counts, the result is inputTokens,
\* outputTokens and their sum (0 for an absent key), whatever total_tokens the
\* raw mapping carries.
C12_BedrockComputesTotal ==
    (NormDone /\ provider = "bedrock"
        /\ RawOrZero("inputTokens").t = "int" /\ RawOrZero("outputTokens").t = "int") =>
        /\ ~norm_out.raised
        /\ norm_out.value["input_tokens"] = RawOrZero("inputTokens")
        /\ norm_out.value["output_tokens"] = RawOrZero("outputTokens")
        /\ norm_out.value["total_tokens"] =
             IntV(RawOrZero("inputTokens").v + RawOrZero("outputTokens").v)

\* The raw mapping carries a total of 5 and the result's total is 10 + 20.
C12_Witness ==
    /\ NormDone
    /\ provider = "bedrock"
    /\ DOMAIN usage_before = {"inputTokens", "outputTokens", "total_tokens"}
    /\ usage_before["total_tokens"] = IntV(5)
    /\ norm_out.value =
         [input_tokens |-> IntV(10), output_tokens |-> IntV(20), total_tokens |-> IntV(30)]

\* C13: with provider "openai" or "ollama", input and output come from
\* prompt_tokens and completion_tokens, from inputTokens and outputTokens only
\* when the former key is absent, and total_tokens is copied (0 if absent).
C13_OpenAIReadsPromptKeys ==
    (NormDone /\ provider \in {"openai", "ollama"}) =>
        /\ ~norm_out.raised
        /\ norm_out.value["input_tokens"] = FirstPresent(<<"prompt_tokens", "inputTokens">>)
        /\ norm_out.value["output_tokens"] =
             FirstPresent(<<"completion_tokens", "outputTokens">>)
        /\ norm_out.value["total_tokens"] = RawOrZero("total_tokens")

\* The input falls back to inputTokens, the output does not, the total is not the sum.
C13_Witness ==
    /\ NormDone
    /\ provider = "ollama"
    /\ DOMAIN usage_before =
         {"inputTokens", "outputTokens", "completion_tokens", "total_tokens"}
    /\ norm_out.value =
         [input_tokens |-> IntV(10), output_tokens |-> IntV(21), total_tokens |-> IntV(5)]

\* C14: with any other provider tag, input is the first present of
\* input_tokens, inputTokens, prompt_tokens, output the first present of
\* output_tokens, outputTokens, completion_tokens, and total_tokens is copied
\* (each 0 if none is present).
C14_GenericFallbackChain ==
    (NormDone /\ provider \notin {"bedrock", "openai", "ollama"}) =>
        /\ ~norm_out.raised
        /\ norm_out.value["input_tokens"] =
             FirstPresent(<<"input_tokens", "inputTokens", "prompt_tokens">>)
        /\ norm_out.value["output_tokens"] =
             FirstPresent(<<"output_tokens", "outputTokens", "completion_tokens">>)
        /\ norm_out.value["total_tokens"] = RawOrZero("total_tokens")

\* input_tokens is absent and inputTokens wins over prompt_tokens.
C14_Witness ==
    /\ NormDone
    /\ provider = "anthropic"
    /\ DOMAIN usage_before =
         {"inputTokens", "prompt_tokens", "outputTokens", "completion_tokens"}
    /\ norm_out.value =
         [input_tokens |-> IntV(10), output_tokens |-> IntV(20), total_tokens |-> IntV(0)]

\* The raw keys a canonical field is read from, for a provider tag.
SourceKeys(p, field) ==
    IF p = "bedrock"
    THEN CASE field = "input_tokens" -> {"inputTokens"}
           [] field = "output_tokens" -> {"outputTokens"}
           [] field = "total_tokens" -> {"inputTokens", "outputTokens"}
    ELSE IF p \in {"openai", "ollama"}
    THEN CASE field = "input_tokens" -> {"prompt_tokens", "inputTokens"}
           [] field = "output_tokens" -> {"completion_tokens", "outputTokens"}
           [] field = "total_tokens" -> {"total_tokens"}
    ELSE CASE field = "input_tokens" -> {"input_tokens", "inputTokens", "prompt_tokens"}
           [] field = "output_tokens" -> {"output_tokens", "outputTokens", "completion_tokens"}
           [] field = "total_tokens" -> {"total_tokens"}

\* C15: whatever the provider tag and the mapping, a result of normalize_usage
\* has exactly the keys input_tokens, output_tokens, total_tokens; a field
\* none of whose source keys the provider sent is 0; the empty mapping gives
\* three zeros.
C15_ThreeKeysDefaultZero ==
    /\ (NormDone /\ ~norm_out.raised) =>
          /\ DOMAIN norm_out.value = CanonicalKeys
          /\ \A f \in CanonicalKeys :
                (SourceKeys(provider, f) \cap DOMAIN usage_before = {}) =>
                    norm_out.value[f] = IntV(0)
    /\ (NormDone /\ usage_before = EmptyMapping) =>
          /\ ~norm_out.raised
          /\ norm_out.value = [f \in CanonicalKeys |-> IntV(0)]

C15_Witness ==
    /\ NormDone
    /\ usage_before = EmptyMapping
    /\ provider = "openai"
    /\ norm_out.value =
         [input_tokens |-> IntV(0), output_tokens |-> IntV(0), total_tokens |-> IntV(0)]

\* C16 as stated: the usage of every LLMResponse built from normalize_usage's
\* result has three canonical values, each a non-negative integer.
C16_NonNegativeIntegers ==
    norm_pc = "response" =>
        /\ DOMAIN norm_resp.usage = CanonicalKeys
        /\ \A k \in CanonicalKeys :
              norm_resp.usage[k].t = "int" /\ norm_resp.usage[k].v >= 0

\* C16 as amended: the usage of every LLMResponse built from normalize_usage's
\* result has the three canonical keys, each an integer; a result that holds a
\* value that is no integer and no numeric string builds no LLMResponse.
C16_IntegerCounts ==
    /\ norm_pc = "response" =>
          /\ DOMAIN norm_resp.usage = CanonicalKeys
          /\ \A k \in CanonicalKeys : norm_resp.usage[k].t = "int"
    /\ norm_pc = "invalid" =>
          \E k \in CanonicalKeys : norm_out.value[k].t \notin {"int", "str"}

\* A negative count went through normalize_usage and LLMResponse.
C16_Witness ==
    /\ norm_pc = "response"
    /\ provider = "openai"
    /\ norm_resp.usage["input_tokens"] = IntV(-1)
    /\ norm_resp.usage["total_tokens"] = IntV(5)

(***************************************************************************)
(* Claims about the prompt builder                                         *)
(***************************************************************************)

\* x occurs in y as a run of consecutive fragments.
IsSubstring(x, y) ==
    \E i \in 0 .. (Len(y) - Len(x)) : SubSeq(y, i + 1, i + Len(x)) = x

\* C17: for each of the five catalog strategies and all query and previous
\* response texts, the prompt build_prompt returns contains the query and the
\* previous response verbatim.
C17_PromptContainsBoth ==
    \A k \in DOMAIN bp_outs :
        bp_strategy.value \in CatalogValues /\ bp_strategy \in Members =>
            /\ ~bp_outs[k].raised
            /\ IsSubstring(bp_query, bp_outs[k].prompt)
            /\ IsSubstring(bp_prev, bp_outs[k].prompt)

\* A query and a response that differ, one of them with a brace fragment.
C17_Witness ==
    /\ bp_strategy.value = "confidence_assessment"
    /\ bp_query = <<"a", "{response}">>
    /\ bp_prev = <<"{response}", "a">>
    /\ Len(bp_outs) = 1
    /\ bp_outs[1].prompt =
         <<"Evaluate your previous response to this question: Question: ",
           "a", "{response}", " Your previous response: ", "{response}", "a",
           " For each major claim, assess your confidence level.">>

AllRetryable ==
    \A k \in DOMAIN func_calls :
        /\ ~func_calls[k].ok
        /\ IsRetryable(func_calls[k].exc, retry_args.exceptions)

\* C19: retry_call invokes func at most retries times; a successful invocation
\* is the last one and its value is what retry_call returns; when every
\* attempt raised a retryable exception, retry_call raises the exception of
\* the last attempt, after exactly retries attempts.
C19_AtMostRetriesFirstSuccessLastError ==
    /\ Len(func_calls) <= retry_args.retries
    /\ \A k \in DOMAIN func_calls :
          func_calls[k].ok =>
             /\ k = Len(func_calls)
             /\ retry_pc = "done"
             /\ retry_out = ReturnedValue(func_calls[k].value)
    /\ (retry_out.kind = "returned") =>
          (func_calls # << >> /\ func_calls[Len(func_calls)].ok)
    /\ (retry_pc = "done" /\ func_calls # << >> /\ AllRetryable) =>
          /\ Len(func_calls) = retry_args.retries
          /\ retry_out = RaisedExc(func_calls[Len(func_calls)].exc)
    /\ (AllRetryable /\ Len(func_calls) = retry_args.retries /\ func_calls # << >>) =>
          retry_pc = "done"

\* Three attempts raised three exceptions and the third one came out.
C19_Witness ==
    /\ retry_args.retries = 3
    /\ Len(func_calls) = 3
    /\ AllRetryable
    /\ func_calls[1].exc.type = "ValueError"
    /\ func_calls[3].exc.type = "TimeoutError"
    /\ retry_out = RaisedExc(Exc("TimeoutError", 3))
    /\ Len(sleeps) = 2

(***************************************************************************)
(* Claims about RateLimiter                                                *)
(***************************************************************************)

\* The number of acquire calls that returned True in the window of length
\* period that ends with the current clock reading.
GrantsInWindow == Len(StillRecent(recent, now, limiter.period))

\* C20 as stated: in any time window of length period at most calls acquire
\* calls return True.
C20_AtMostCallsPerWindow == GrantsInWindow <= limiter.calls

\* C20: in any time window of length period at most 2 * calls acquire calls
\* return True: a full bucket of calls tokens, and at most calls tokens
\* refilled while the window lasts.
C20_AtMostTwiceCallsPerWindow == GrantsInWindow <= 2 * limiter.calls

\* A bucket of 2 emptied at time 1 and two refills give 4 grants within 4 ticks.
C20_Witness ==
    /\ limiter.calls = 2
    /\ limiter.period = 4
    /\ now = 4
    /\ recent = <<1, 1, 2, 4>>

\* C21: acquire returns True exactly in the step that takes one token from the
\* refilled bucket; every other step of an acquire call, and so every call
\* that returns False, leaves the token count as it was.
C21_TrueIffOneTokenTaken ==
    [][\A t \in Threads :
          acq'[t] # acq[t] =>
             /\ (acq'[t].ret = "True") =>
                   (limiter'.tokens = Refill(limiter, now).tokens - 1)
             /\ (acq'[t].ret # "True") => (limiter'.tokens = limiter.tokens)
             /\ (acq'[t].ret = "False") => (limiter' = limiter)]_vars

\* One thread got the last token after a refill, the other was turned away.
C21_Witness ==
    /\ acq["t1"].ret = "True"
    /\ acq["t2"].ret = "False"
    /\ limiter.tokens = 0
    /\ limiter.last > 0

(***************************************************************************)
(* Claims about the provider clients                                       *)
(***************************************************************************)

\* The current generate call was not a streaming one and has ended after its
\* provider calls succeeded or failed with an Exception.
NonStreamingEnded ==
    /\ gen_pc = "done"
    /\ gen_out.kind \in {"response", "raised"}
    /\ ~(gen_client \in StreamingClients /\ gen_args.stream)
    /\ \A k \in DOMAIN func_calls : func_calls[k].exc.type # "KeyboardInterrupt"

\* C22: a non-streaming generate call of any provider client returns an
\* LLMResponse or raises LLMProviderError, never another exception type.
C22_ResponseOrProviderError ==
    NonStreamingEnded =>
        \/ gen_out.kind = "response"
        \/ gen_out.kind = "raised" /\ gen_out.type = "LLMProviderError"

(***************************************************************************)
(* More claims about reflect                                               *)
(***************************************************************************)

\* The count a returned response reports under key; 0 when the key is absent.
CountOf(response, key) ==
    IF key \in DOMAIN response.usage THEN response.usage[key] ELSE 0

RECURSIVE SumKey(_, _)
SumKey(rets, key) ==
    IF rets = << >> THEN 0
    ELSE CountOf(Head(rets).outcome, key) + SumKey(Tail(rets), key)

\* Session s is between rounds or has returned: every call so far returned.
RoundsCompleted(s) == pc[s] \in {"Reflecting", "Completed"}

\* C23: after round k has completed the iteration sequence holds exactly k
\* records, in the order of the rounds, the two counters are the sums over
\* calls 0..k, and the sequence changes only by one record appended at its end.
C23_LoopInvariant ==
    /\ [](\A s \in Sessions :
            RoundsCompleted(s) =>
               LET k == Len(Returns(s)) - 1 IN
               /\ k >= 0
               /\ N(s) >= 0 => k <= N(s)
               /\ Len(iteration_responses[s]) = k
               /\ \A j \in 1 .. k :
                     /\ iteration_responses[s][j].iteration = j
                     /\ iteration_responses[s][j].response = Returns(s)[j + 1].outcome.text
               /\ total_input_tokens[s] = SumKey(Returns(s), "input_tokens")
               /\ total_output_tokens[s] = SumKey(Returns(s), "output_tokens"))
    /\ [][\A s \in Sessions :
            \/ iteration_responses'[s] = iteration_responses[s]
            \/ /\ Len(iteration_responses'[s]) = Len(iteration_responses[s]) + 1
               /\ SubSeq(iteration_responses'[s], 1, Len(iteration_responses[s]))
                     = iteration_responses[s]]_vars

\* Two rounds with different responses are done.
C23_Witness ==
    /\ Returned(1)
    /\ N(1) = 2
    /\ Len(iteration_responses[1]) = 2
    /\ iteration_responses[1][1].response = <<"r1">>
    /\ iteration_responses[1][2].response = <<"r2">>
    /\ total_input_tokens[1] = 4

\* C24: a response whose usage lacks input_tokens or output_tokens adds 0 for
\* the missing field and what it reports for the other, the session goes on or
\* completes, and what the counters held from the other rounds stays.
C24_MissingUsageCountsZero ==
    [][\A s \in Sessions :
          (Len(Returns(s))' = Len(Returns(s)) + 1
             /\ Returns(s)'[Len(Returns(s)')].outcome.kind = "ok") =>
             LET o == Returns(s)'[Len(Returns(s)')].outcome IN
             /\ pc'[s] \in {"Reflecting", "Completed"}
             /\ total_input_tokens'[s] = total_input_tokens[s] + CountOf(o, "input_tokens")
             /\ total_output_tokens'[s] = total_output_tokens[s] + CountOf(o, "output_tokens")]_vars

\* A round with no usage at all between two rounds that report some.
C24_Witness ==
    /\ Returned(1)
    /\ N(1) = 2
    /\ Returns(1)[1].outcome.usage = [input_tokens |-> 2]
    /\ Returns(1)[2].outcome.usage = EmptyMapping
    /\ Returns(1)[3].outcome.usage = [input_tokens |-> 1, output_tokens |-> 2, total_tokens |-> 3]
    /\ result[1].total_tokens = 5

\* reflect has ended for session s.
Terminated(s) == pc[s] \in {"Completed", "Raised"}

\* A call that completed made rounds(s) reflection rounds; one that raised
\* left no result.
EndsAfter(s, rounds) ==
    /\ pc[s] = "Completed" =>
          /\ Len(Returns(s)) - 1 = rounds
          /\ Len(result[s].iterations) = rounds
    /\ pc[s] = "Raised" => result[s] = NoResult

\* C25 as stated: every reflect call terminates, for every integer
\* num_iterations, Completed after exactly num_iterations reflection rounds or
\* raised, with no error state kept.
C25_TerminatesAfterN ==
    /\ \A s \in Sessions : (pc[s] = "Initializing") ~> Terminated(s)
    /\ [](\A s \in Sessions : EndsAfter(s, N(s)))
    /\ [][llm_client' = llm_client]_vars

\* C25: every reflect call terminates, for every integer num_iterations,
\* Completed after exactly max(num_iterations, 0) reflection rounds or raised;
\* a call that raised leaves no result, and the manager is never written.
C25_TerminatesAfterRange ==
    /\ \A s \in Sessions : (pc[s] = "Initializing") ~> Terminated(s)
    /\ [](\A s \in Sessions : EndsAfter(s, Max(N(s), 0)))
    /\ [][llm_client' = llm_client]_vars

\* A call with a negative num_iterations has completed without a round.
C25_Witness ==
    /\ Returned(1)
    /\ N(1) = -1
    /\ Len(Returns(1)) = 1
    /\ result[1].iterations = << >>

(***************************************************************************)
(* More claims about retry_call                                            *)
(***************************************************************************)

RECURSIVE Pow2(_)
Pow2(n) == IF n = 0 THEN 1 ELSE 2 * Pow2(n - 1)

\* The invocations of func that raised an exception the except clause catches.
CaughtFailures ==
    Len(SelectSeq(func_calls,
                  LAMBDA c : ~c.ok /\ IsRetryable(c.exc, retry_args.exceptions)))

\* C26: retry_call (retries >= 1) sleeps only between attempts: the j-th sleep
\* lasts backoff * 2^(j-1) and comes after the j-th caught failure and before
\* attempt j+1; after a caught failures it has slept min(a, retries - 1)
\* times, and it does not sleep after the last attempt or after a success.
C26_SleepsBetweenAttempts ==
    retry_args.retries >= 1 =>
        /\ \A j \in DOMAIN sleeps : sleeps[j] = retry_args.backoff * Pow2(j - 1)
        /\ retry_pc = "sleep" =>
              /\ Len(sleeps) = CaughtFailures - 1
              /\ CaughtFailures < retry_args.retries
        /\ retry_pc = "loop" => Len(sleeps) = Len(func_calls)
        /\ retry_pc \in {"loop", "done"} =>
              Len(sleeps) = Min(CaughtFailures, retry_args.retries - 1)

\* Three caught failures with retries = 3 and backoff = 2: sleeps of 2 and 4.
C26_Witness ==
    /\ retry_args.retries = 3
    /\ retry_args.backoff = 2
    /\ retry_pc = "done"
    /\ CaughtFailures = 3
    /\ sleeps = <<2, 4>>

\* C27: an exception of func that the exceptions tuple does not match leaves
\* retry_call at once: it is the last invocation of func, it is what
\* retry_call raises, and no sleep follows it, whatever attempts are left.
C27_OtherExceptionsPropagate ==
    \A k \in DOMAIN func_calls :
        (~func_calls[k].ok /\ ~IsRetryable(func_calls[k].exc, retry_args.exceptions)) =>
            /\ k = Len(func_calls)
            /\ retry_pc = "done"
            /\ retry_out = RaisedExc(func_calls[k].exc)
            /\ Len(sleeps) = k - 1

\* A ValueError in the second of three attempts when only TimeoutError is retried.
C27_Witness ==
    /\ retry_args.retries = 3
    /\ retry_args.exceptions = {"TimeoutError"}
    /\ Len(func_calls) = 2
    /\ func_calls[1].exc.type = "TimeoutError"
    /\ func_calls[2].exc.type = "ValueError"
    /\ retry_out = RaisedExc(Exc("ValueError", 2))
    /\ Len(sleeps) = 1

\* C28: under any interleaving of acquire calls from several threads,
\* 0 <= _tokens <= calls in every state, and the acquire calls that returned
\* True are never more than the initial calls tokens plus those _refill added.
C28_TokensBoundedAndConserved ==
    /\ 0 <= limiter.tokens
    /\ limiter.tokens <= limiter.calls
    /\ tally.granted <= limiter.calls + tally.added
    /\ tally.granted = limiter.calls + tally.added - limiter.tokens

\* Both threads were granted a token of a bucket of one, after a refill.
C28_Witness ==
    /\ limiter.calls = 1
    /\ acq["t1"].ret = "True"
    /\ acq["t2"].ret = "True"
    /\ tally.added >= 1
    /\ tally.granted = tally.added + 1
    /\ limiter.tokens = 0

\* C30: with a rate_limit option, the OpenAI, Bedrock, Ollama and Anthropic
\* clients acquire a token before every invocation of the provider API,
\* streaming or not, and a later generate call of the same client finds the
\* token count the earlier one left.
C30_AcquireBeforeEveryCall ==
    (gen_client \in WrappingClients /\ gen_args.rate_limit.set) =>
        /\ \A k \in DOMAIN func_calls :
              \E j \in DOMAIN acquire_log :
                 acquire_log[j].gen = gen_count /\ acquire_log[j].at = k - 1
        /\ \A i, j \in DOMAIN acquire_log :
              (acquire_log[i].gen < acquire_log[j].gen) =>
                 acquire_log[j].tokens < acquire_log[i].tokens

\* Thread t is inside acquire.
InAcquire(t) == acq[t].pc \in {"locked", "unlocked", "sleeping"}

\* Thread t is inside a blocking acquire without timeout.
Waiting(t) == InAcquire(t) /\ acq[t].blocking /\ acq[t].timeout = NoTimeout

\* Thread t is inside a blocking acquire whose timeout has passed.
TimedOut(t) ==
    /\ InAcquire(t)
    /\ acq[t].blocking
    /\ acq[t].timeout # NoTimeout
    /\ now - acq[t].start >= acq[t].timeout

\* Thread t goes to sleep inside acquire.
GoesToSleep(t) == acq[t].pc = "unlocked" /\ acq'[t].pc = "sleeping"

\* C29 as stated: while time keeps advancing, every blocking acquire without
\* timeout eventually returns True, whatever the other threads do; and a
\* blocking acquire whose timeout has passed returns, without sleeping again
\* after a poll that found no token.
C29_BlockingAcquireReturns ==
    /\ \A t \in Threads : Waiting(t) ~> (acq[t].ret = "True")
    /\ \A t \in Threads : TimedOut(t) ~> (acq[t].pc = "idle")
    /\ [][\A t \in Threads : TimedOut(t) => ~GoesToSleep(t)]_vars

\* C29, amended: while time keeps advancing, a blocking acquire without timeout
\* eventually returns True provided the other threads eventually stop calling
\* acquire (a thread that keeps calling can take every refilled token first);
\* polls that find no token do not postpone the refill. A blocking acquire
\* whose timeout has passed returns, without sleeping again after a poll that
\* found no token.
C29_BlockingAcquireReturnsUncontended ==
    /\ \A t \in Threads :
          (<>[](\A u \in Threads \ {t} : acq[u].pc = "idle"))
             => (Waiting(t) ~> (acq[t].ret = "True"))
    /\ \A t \in Threads : TimedOut(t) ~> (acq[t].pc = "idle")
    /\ [][\A t \in Threads : TimedOut(t) => ~GoesToSleep(t)]_vars

\* A thread sleeps inside a blocking acquire without timeout on an empty
\* bucket whose last refill is a whole period old, while another thread's
\* call has timed out.
C29_Witness ==
    /\ Waiting("t1")
    /\ acq["t1"].pc = "sleeping"
    /\ limiter.tokens = 0
    /\ now - limiter.last >= limiter.period
    /\ limiter.period > 1
    /\ TimedOut("t2")


====
